---- MODULE Spec2Model ----
(***************************************************************************)
(* The REST backend as a state machine.  The document store (users, posts, *)
(* comments, notifications) is the shared state; every HTTP request is a   *)
(* handler that runs from one store round-trip (await) to the next, so a   *)
(* request is a small process whose position is its pc, and requests       *)
(* interleave at their store accesses.                                     *)
(***************************************************************************)
EXTENDS Integers, Sequences, FiniteSets, TLC

\* ------------------------------------------------------------------ bounds
NumUsers == 2
NumPosts == 1
NumComments == 1
MaxInflight == 2
MaxRequests == 3
\* Notifications that requests served before a run left in the store.
MaxEarlier == 1
\* The longest post content drawn.
MaxTextLen == 32

Users == 1..NumUsers
PostIds == 1..NumPosts
CommentIds == 1..NumComments
Slots == 1..MaxInflight

\* A route parameter :id is any string.  A positive number stands for a
\* well-formed ObjectId (of a document that exists, existed or never did),
\* MalformedId for a string that does not cast to an ObjectId.
MalformedId == 0
\* A well-formed user id that no user document has.
UnknownUser == NumUsers + 1
\* req.user before the middleware has set it; a populated reference to a
\* user document that no longer exists.
NoUser == 0

\* The bearer credentials a request can carry: no Authorization header, an
\* expired token, a string that is no valid token (bad signature, garbage),
\* or a token the server issued for user u at registration or login.
TokenOf(u) == [class |-> "token", userId |-> u]
Credentials ==
    {[class |-> c, userId |-> NoUser] : c \in {"missing", "expired", "invalid"}}
        \cup {TokenOf(u) : u \in Users}

Kinds == {"createPost", "deletePost", "likePost",
          "createComment", "likeComment", "deleteUser"}

\* The routes that test the caller against the owner of what they change.
OwnedKinds == {"updatePost", "deletePost", "updateComment", "deleteComment",
               "deleteUser"}

\* The routes of the notifications router that write.
NotificationKinds == {"markRead", "readAll"}

FollowKinds == {"follow", "unfollow"}

AllKinds == Kinds \cup NotificationKinds \cup OwnedKinds \cup FollowKinds \cup {"get"}

VARIABLES
    users,          \* User collection: the ids of the stored user documents
    follows,        \* User collection: per user id, the document's following
                    \* and followers arrays
    posts,          \* Post collection: PostIds -> document
    comments,       \* Comment collection: CommentIds -> document
    notifications,  \* Notification collection, in creation order
    reqs,           \* the request handlers in flight: Slots -> handler state
    last,           \* the request the latest step answered, with its response
                    \* (IdleReq when the latest step answered none)
    nReq,           \* requests received so far
    serial,         \* whether the clients send each request only after the
                    \* previous one was answered (fixed for a run)
    ownLike,        \* history: per entity and user, whether the user's own latest
                    \* like update was an add
    toggles         \* history: per entity and user, whether the user has issued
                    \* an odd number of like updates

vars == <<users, follows, posts, comments, notifications, reqs, last, nReq, serial,
          ownLike, toggles>>

\* ------------------------------------------------------------ pure helpers
Range(s) == {s[i] : i \in 1..Len(s)}

\* Array.prototype.includes on a likes array.
Includes(s, x) == x \in Range(s)

Occurrences(s, x) == Cardinality({i \in 1..Len(s) : s[i] = x})

\* $pull: removes every element equal to x.
Pull(s, x) == SelectSeq(s, LAMBDA y : y # x)

\* $push: appends unconditionally.
Push(s, x) == Append(s, x)

\* $addToSet: appends x unless the array already holds it.
AddToSet(s, x) == IF x \in Range(s) THEN s ELSE Append(s, x)

\* The update document of the like toggle: $pull when the earlier read saw
\* the user in likes, $addToSet otherwise.
AlwaysAdd(likes, hasLiked, userId) == AddToSet(likes, userId)

PushLike(likes, hasLiked, userId) ==
    IF hasLiked THEN Pull(likes, userId) ELSE Push(likes, userId)

LikeUpdate(likes, hasLiked, userId) ==
    IF hasLiked THEN Pull(likes, userId) ELSE AddToSet(likes, userId)

\* What findOneAndUpdate resolves to for a matched document: with
\* {new: true} the document after the update.
ReturnedOld(before, after) == before

ReturnedDocument(before, after) == after

\* ------------------------------------------------------------------- text
\* A string is the sequence of its characters (UTF-16 code units).
Chars == <<"a", "b", "c">>

\* The text of n characters whose i-th character is the (i + k)-th of Chars,
\* cyclically: texts of one length differ with k, no two neighbours agree.
Text(n, k) == [i \in 1..n |-> Chars[((i + k) % Len(Chars)) + 1]]

\* The content of the stored posts and comments and of the request bodies
\* where the text plays no part.
SeedText == Text(2, 0)

Min(a, b) == IF a < b THEN a ELSE b

\* String.prototype.substring(start, end), for 0 <= start <= end.
Substring(s, start, end) == SubSeq(s, Min(start, Len(s)) + 1, Min(end, Len(s)))

\* The length the notification previews cut a text to.
PreviewLength == 30

Ellipsis == <<".", ".", ".">>

\* `${text.substring(0, 30)}${text.length > 30 ? '...' : ''}`
PreviewOffByOne(text) ==
    Substring(text, 0, PreviewLength)
        \o (IF Len(text) >= PreviewLength THEN Ellipsis ELSE <<>>)

Preview(text) ==
    Substring(text, 0, PreviewLength)
        \o (IF Len(text) > PreviewLength THEN Ellipsis ELSE <<>>)

\* user.username: unique per user.
Username(u) == ToString(u)

\* The content of a 'like' Notification: "<preview>" liked by <username>
LikeContent(text, username) ==
    <<"\"">> \o Preview(text) \o <<"\"", " liked by ", username>>

\* The content of a 'comment' Notification:
\* "<preview of the post>" commented by <username>: "<preview of the comment>"
CommentContent(text, username, body) ==
    <<"\"">> \o Preview(text) \o <<"\"", " commented by ", username, ": ", "\"">>
        \o Preview(body) \o <<"\"">>

\* ------------------------------------------------------------------ store
NoPost == [state |-> "none", user |-> NoUser, likes |-> <<>>, content |-> <<>>]
DeletedPost == [state |-> "deleted", user |-> NoUser, likes |-> <<>>, content |-> <<>>]
NoComment ==
    [state |-> "none", user |-> NoUser, post |-> 0, likes |-> <<>>, content |-> <<>>]

PostExists(p) == p \in PostIds /\ posts[p].state = "live"
CommentExists(c) == c \in CommentIds /\ comments[c].state = "live"

\* The ObjectId a new document of a collection gets (ids are never reused).
FreshIds(coll, ids) ==
    {i \in ids : coll[i].state = "none" /\ \A j \in ids : j < i => coll[j].state # "none"}

\* A document a query resolved to, reduced to its likes; null when none matched.
NoDoc == [isNull |-> TRUE, likes |-> <<>>]
Doc(likes) == [isNull |-> FALSE, likes |-> likes]

Notification(recipient, sender, post, type, content) ==
    [recipient |-> recipient, sender |-> sender, post |-> post, type |-> type,
     content |-> content, read |-> FALSE]

\* The arrays of distinct user ids, in any order.
FollowLists ==
    {l \in UNION {[1..n -> Users] : n \in 0..NumUsers} :
        \A i, j \in 1..Len(l) : l[i] = l[j] => i = j}

\* A new user document follows nobody and has no followers.
NoFollows == [u \in Users |-> [following |-> <<>>, followers |-> <<>>]]

Entities == {"post", "comment"}
EntityIds(e) == IF e = "post" THEN PostIds ELSE CommentIds
NoHistory == [e \in Entities |-> [i \in EntityIds(e) |-> [u \in Users |-> FALSE]]]

IdleReq ==
    [kind |-> "none", pc |-> "idle", cred |-> [class |-> "missing", userId |-> NoUser],
     target |-> 0, text |-> <<>>, user |-> NoUser, status |-> 0, error |-> "",
     ref |-> 0, path |-> <<>>, handler |-> "", list |-> <<>>,
     content |-> <<>>,
     readLikes |-> <<>>, hasLiked |-> FALSE, owner |-> NoUser, ownerPopulated |-> FALSE,
     updated |-> NoDoc, body |-> NoDoc,
     \* history of this request, for the properties
     credOk |-> FALSE, entered |-> FALSE, threw |-> FALSE, found |-> FALSE,
     likedAtStart |-> FALSE, nBefore |-> 0, wrote |-> FALSE, notified |-> FALSE,
     added |-> FALSE, postImage |-> <<>>]

InFlight(r) == reqs[r].pc # "idle"

\* The latest step answered a request, and the response is not yet delivered.
Answered == last.pc = "done"

\* The handler of slot r moves on to its next store access.
Continue(r, req) == reqs' = [reqs EXCEPT ![r] = req] /\ last' = IdleReq

\* res.status(code).json(...): the handler of slot r has answered and ended.
Respond(r, req, code, err) ==
    /\ reqs' = [reqs EXCEPT ![r] = IdleReq]
    /\ last' = [req EXCEPT !.pc = "done", !.status = code, !.error = err]

TypeOK ==
    /\ users \subseteq Users
    /\ nReq \in 0..MaxRequests
    /\ \A p \in PostIds : posts[p].state \in {"none", "live", "deleted"}
    /\ \A c \in CommentIds : comments[c].state \in {"none", "live", "deleted"}
    /\ \A r \in Slots : reqs[r].kind \in AllKinds \cup {"none"}
    /\ Len(notifications) <= MaxRequests + NumComments + MaxEarlier
    /\ \A u \in Users : /\ Range(follows[u].following) \subseteq Users
                        /\ Range(follows[u].followers) \subseteq Users

\* The 'comment' Notifications that the requests which created the stored
\* comments wrote: one per comment of a user who is not the post's owner.
CommentNotifications ==
    LET live == {c \in CommentIds : comments[c].state = "live"}
        all == [c \in 1..Cardinality(live) |->
                    Notification(posts[comments[c].post].user, comments[c].user,
                                 comments[c].post, "comment",
                                 CommentContent(posts[comments[c].post].content,
                                                Username(comments[c].user),
                                                comments[c].content))]
    IN SelectSeq(all, LAMBDA n : n.sender # n.recipient)

\* The documents when the first request of a run arrives: every user
\* registered, and the posts and comments some earlier POST /posts and
\* POST /comments/:postId requests left (each new document with no likes),
\* none in flight.
InitDocs ==
    /\ users = Users
    /\ follows = NoFollows
    /\ \E n \in 0..NumPosts : \E o \in [1..n -> Users] :
        posts = [p \in PostIds |-> IF p <= n
                                   THEN [state |-> "live", user |-> o[p], likes |-> <<>>,
                                         content |-> SeedText]
                                   ELSE NoPost]
    /\ \E n \in 0..NumComments : \E o \in [1..n -> Users \X PostIds] :
        comments = [c \in CommentIds |->
                        IF c <= n THEN [state |-> "live", user |-> o[c][1],
                                        post |-> o[c][2], likes |-> <<>>,
                                        content |-> SeedText]
                        ELSE NoComment]
    /\ \A c \in CommentIds : comments[c].state = "live" => PostExists(comments[c].post)
    /\ reqs = [r \in Slots |-> IdleReq]
    /\ last = IdleReq
    /\ ownLike = NoHistory
    /\ toggles = NoHistory

\* The store when the first request of a run arrives: the documents, and the
\* notifications the requests that created the comments wrote.
InitStore == InitDocs /\ notifications = CommentNotifications /\ nReq = 0

\* The id of a post that was deleted before the run: its Notifications stay.
GonePost == NumPosts + 1

\* The 'like' Notifications earlier requests can have left: about a stored
\* post, to its owner from another user (the like may have been taken back
\* since); or about the post deleted before the run, whose owner was any
\* user; each read or not.
EarlierAbout(post, owner) ==
    {[Notification(owner, s, post, "like", LikeContent(SeedText, Username(s)))
            EXCEPT !.read = b] : s \in Users \ {owner}, b \in BOOLEAN}

EarlierNotifications ==
    UNION {EarlierAbout(p, posts[p].user) : p \in {q \in PostIds : PostExists(q)}}
      \cup UNION {EarlierAbout(GonePost, o) : o \in Users}

\* The store with no comments and up to MaxEarlier earlier Notifications.
InitNotif ==
    /\ InitDocs
    /\ \A c \in CommentIds : comments[c].state = "none"
    /\ \E n \in 0..MaxEarlier :
            notifications \in [1..n -> EarlierNotifications]
    /\ \A i, j \in 1..Len(notifications) :
            notifications[i].post = notifications[j].post
                => notifications[i].recipient = notifications[j].recipient
    /\ serial = FALSE
    /\ nReq = 0

\* The texts a post can have been created with.
Texts == {Text(n, k) : n \in 0..MaxTextLen, k \in 0..(Len(Chars) - 1)}

\* One stored post of any owner and any text, nothing else; requests one
\* after another.
InitPreview ==
    /\ users = Users
    /\ follows = NoFollows
    /\ \E o \in Users, t \in Texts :
        posts = [p \in PostIds |->
                    IF p = 1 THEN [state |-> "live", user |-> o, likes |-> <<>>,
                                   content |-> t]
                    ELSE NoPost]
    /\ comments = [c \in CommentIds |-> NoComment]
    /\ notifications = <<>>
    /\ reqs = [r \in Slots |-> IdleReq]
    /\ last = IdleReq
    /\ nReq = 0
    /\ ownLike = NoHistory
    /\ toggles = NoHistory
    /\ serial = TRUE

\* The arrays a post's likes can be after earlier like requests.
LikeLists == FollowLists

\* The stored posts, each with any likes, and no request in flight.
InitRoute ==
    /\ users = Users
    /\ follows = NoFollows
    /\ \E n \in 0..NumPosts : \E o \in [1..n -> Users], l \in [1..n -> LikeLists] :
        posts = [p \in PostIds |->
                    IF p <= n THEN [state |-> "live", user |-> o[p], likes |-> l[p],
                                    content |-> SeedText]
                    ELSE NoPost]
    /\ comments = [c \in CommentIds |-> NoComment]
    /\ notifications = <<>>
    /\ reqs = [r \in Slots |-> IdleReq]
    /\ last = IdleReq
    /\ nReq = 0
    /\ ownLike = [NoHistory EXCEPT !["post"] =
                    [p \in PostIds |-> [u \in Users |-> Includes(posts[p].likes, u)]]]
    /\ toggles = ownLike
    /\ serial = FALSE

\* Every user registered, and the follow lists that earlier follow requests,
\* one after another, left: each user follows any set of other users.
InitFollow ==
    /\ users = Users
    /\ follows \in [Users -> [following : FollowLists, followers : FollowLists]]
    /\ \A u, v \in Users :
        /\ ~Includes(follows[u].following, u)
        /\ Includes(follows[u].following, v) <=> Includes(follows[v].followers, u)
    /\ posts = [p \in PostIds |-> NoPost]
    /\ comments = [c \in CommentIds |-> NoComment]
    /\ notifications = <<>>
    /\ reqs = [r \in Slots |-> IdleReq]
    /\ last = IdleReq
    /\ nReq = 0
    /\ ownLike = NoHistory
    /\ toggles = NoHistory
    /\ serial = FALSE

\* Clients that overlap their requests freely.
Init == InitStore /\ serial = FALSE

\* Clients that send requests one after another.
InitSeq == InitStore /\ serial = TRUE

\* --------------------------------------------------------------- requests
HasIdParam(kind) ==
    kind \in {"deletePost", "likePost", "createComment", "likeComment", "markRead",
              "updatePost", "updateComment", "deleteComment", "follow", "unfollow"}

\* The values a request of each kind can carry in its route parameter.
Targets(kind) ==
    CASE kind = "createPost" -> {0}
      [] kind \in {"deletePost", "likePost", "createComment", "updatePost"} ->
            PostIds \cup {MalformedId}
      [] kind \in {"likeComment", "updateComment", "deleteComment"} ->
            CommentIds \cup {MalformedId}
      [] kind = "deleteUser" -> Users
      \* a Notification's id is its place in creation order; one more stands
      \* for a well-formed id that no Notification has
      [] kind = "markRead" -> 1..(Len(notifications) + 1) \cup {MalformedId}
      [] kind = "readAll" -> {0}
      [] kind \in FollowKinds -> Users \cup {UnknownUser, MalformedId}

\* The first store access of each route handler, after auth called next().
Entry(kind) ==
    CASE kind = "createPost" -> "save"
      [] kind = "readAll" -> "update"
      [] kind \in FollowKinds -> "findTarget"
      [] OTHER -> "find"

\* middleware/auth: the error code it answers with, or "OK" when it calls
\* next().  stored: the User collection; lookupThrows: User.findById rejected.
AuthNoUserCheck(cred, stored, lookupThrows) ==
    CASE cred.class = "missing" -> "AUTH_TOKEN_MISSING"
      [] cred.class = "expired" -> "TOKEN_EXPIRED"
      [] cred.class = "invalid" -> "INVALID_TOKEN"
      [] OTHER -> IF lookupThrows THEN "AUTH_FAILED" ELSE "OK"

AuthOutcome(cred, stored, lookupThrows) ==
    CASE cred.class = "missing" -> "AUTH_TOKEN_MISSING"
      [] cred.class = "expired" -> "TOKEN_EXPIRED"
      [] cred.class = "invalid" -> "INVALID_TOKEN"
      [] OTHER -> IF lookupThrows THEN "AUTH_FAILED"
                  ELSE IF cred.userId \notin stored THEN "USER_NOT_FOUND"
                  ELSE "OK"

NewRequest(kind, cred, target, text) ==
    [IdleReq EXCEPT !.kind = kind, !.pc = "auth", !.cred = cred, !.target = target,
                    !.text = text,
                    !.nBefore = Len(notifications),
                    !.likedAtStart =
                        IF kind = "likePost" /\ PostExists(target) /\ cred.class = "token"
                        THEN Includes(posts[target].likes, cred.userId)
                        ELSE FALSE]

\* The documents a collection can still take, less those the create requests
\* in flight will take.
Room(kind) ==
    CASE kind = "createPost" ->
            Cardinality({p \in PostIds : posts[p].state = "none"})
                > Cardinality({r \in Slots : reqs[r].kind = "createPost"})
      [] kind = "createComment" ->
            Cardinality({c \in CommentIds : comments[c].state = "none"})
                > Cardinality({r \in Slots : reqs[r].kind = "createComment"})
      [] OTHER -> TRUE

\* A request arrives and runs through the auth middleware: the header test
\* and jwt.verify, then User.findById, the request's first store access (the
\* arrival itself touches no shared state, so it is one step with that
\* access).  auth answers 401, or sets req.user and calls next(): the route
\* handler runs up to its first store access.  A handler whose :id does not
\* cast to an ObjectId gets a CastError from its first query before the store
\* is reached, and its catch answers 500.
HasBody(kind) == kind \in {"createPost", "createComment", "updatePost", "updateComment"}

\* The text an update request carries.
NewText == Text(3, 1)

\* req.body.content of the requests of a kind; PUT /posts/:id takes a body
\* with no content too.
Bodies(kind) ==
    CASE kind = "updatePost" -> {<<>>, NewText}
      [] kind = "updateComment" -> {NewText}
      [] HasBody(kind) -> {SeedText}
      [] OTHER -> {<<>>}

ReceiveBody(r, kind, cred, target, text, lookupThrows) ==
    /\ ~Answered
    /\ ~InFlight(r)
    /\ \A q \in Slots : q < r => InFlight(q)
    /\ nReq < MaxRequests
    /\ Room(kind)
    /\ lookupThrows => cred.class = "token"
    /\ serial => \A q \in Slots : ~InFlight(q)
    /\ nReq' = nReq + 1
    /\ LET req == [NewRequest(kind, cred, target, text) EXCEPT
                        !.credOk = cred.class = "token" /\ cred.userId \in users]
           out == AuthOutcome(cred, users, lookupThrows)
           in == [req EXCEPT !.pc = Entry(kind), !.user = cred.userId,
                             !.entered = TRUE]
       IN IF out # "OK"
          THEN \* the route parameter is read by the handler only
               Respond(r, [req EXCEPT !.threw = lookupThrows, !.target = 0,
                                      !.text = <<>>, !.likedAtStart = FALSE], 401, out)
          ELSE IF kind \in FollowKinds /\ target = cred.userId
               THEN \* req.params.id === req.user._id.toString()
                    Respond(r, in, 400, "You cannot follow or unfollow yourself")
          ELSE IF HasIdParam(kind) /\ target = MalformedId
               THEN Respond(r, in, 500, "Server error")
               ELSE Continue(r, in)
    /\ UNCHANGED <<users, posts, comments, notifications, serial, follows, ownLike, toggles>>

\* A request whose body, where the route reads one, carries the seed text.
Receive(r, kind, cred, target, lookupThrows) ==
    ReceiveBody(r, kind, cred, target, IF HasBody(kind) THEN SeedText ELSE <<>>,
                lookupThrows)

\* The ownership test of the update and delete routes:
\* post.user.toString() !== req.user._id.toString() answers 401.
AnyoneIsOwner(docUser, userId) == TRUE

IsOwner(docUser, userId) == docUser = userId

\* The status the catch block of a handler answers with.
CatchAfterWriteOk(req) == IF req.wrote THEN 200 ELSE 500

CatchStatus(req) == 500

\* The store access a handler is waiting on rejects (the store is unavailable):
\* every handler body is one try block whose catch answers 500, and nothing
\* is retried.
StoreFails(r) ==
    /\ ~Answered
    /\ InFlight(r)
    /\ Respond(r, [reqs[r] EXCEPT !.threw = TRUE], CatchStatus(reqs[r]), "Server error")
    /\ UNCHANGED <<users, posts, comments, notifications, nReq, serial, follows, ownLike, toggles>>

\* ---------------------------------------------------- POST /posts (create)
CreatePostSave(r) ==
    /\ ~Answered
    /\ reqs[r].kind = "createPost" /\ reqs[r].pc = "save"
    /\ \E p \in FreshIds(posts, PostIds) :
        /\ posts' = [posts EXCEPT ![p] =
                [state |-> "live", user |-> reqs[r].user, likes |-> <<>>,
                 content |-> reqs[r].text]]
        /\ Respond(r, [reqs[r] EXCEPT !.wrote = TRUE], 201, "")
    /\ UNCHANGED <<users, comments, notifications, nReq, serial, follows, ownLike, toggles>>

\* ------------------------------------------------------- DELETE /posts/:id
DeletePostFind(r) ==
    /\ ~Answered
    /\ reqs[r].kind = "deletePost" /\ reqs[r].pc = "find"
    /\ LET req == reqs[r]
           p == req.target
           got == [req EXCEPT !.found = TRUE, !.owner = posts[p].user]
       IN IF ~PostExists(p) THEN Respond(r, req, 404, "Post not found")
          ELSE IF ~IsOwner(posts[p].user, req.user)
               THEN Respond(r, got, 401, "Not authorized")
               ELSE Continue(r, [got EXCEPT !.pc = "delete"])
    /\ UNCHANGED <<users, posts, comments, notifications, nReq, serial, follows, ownLike, toggles>>

DeletePostDelete(r) ==
    /\ ~Answered
    /\ reqs[r].kind = "deletePost" /\ reqs[r].pc = "delete"
    /\ LET p == reqs[r].target
       IN /\ posts' = [posts EXCEPT ![p] = DeletedPost]
          /\ ownLike' = [ownLike EXCEPT !["post"][p] = [u \in Users |-> FALSE]]
          /\ toggles' = [toggles EXCEPT !["post"][p] = [u \in Users |-> FALSE]]
    /\ Respond(r, [reqs[r] EXCEPT !.wrote = TRUE], 200, "Post removed")
    /\ UNCHANGED <<users, comments, notifications, nReq, serial, follows>>

\* ----------------------------------------------------- PUT /posts/like/:id
\* The condition under which the post like handler writes a Notification.
GateNoOwnerCheck(hasLiked, owner, userId) == ~hasLiked

GateNoEdgeCheck(hasLiked, owner, userId) == owner # userId

NotifyGate(hasLiked, owner, userId) == ~hasLiked /\ owner # userId

\* Post.findById(...).populate('user'), the 404 test and post.likes.includes.
LikeFind(r, req, exists, likes, owner, content) ==
    IF ~exists THEN Respond(r, req, 404, "Not found")
    ELSE Continue(r, [req EXCEPT !.pc = "update", !.found = TRUE, !.readLikes = likes,
                                 !.content = content,
                                 !.hasLiked = Includes(likes, req.user),
                                 !.owner = owner, !.ownerPopulated = owner \in users])

LikePostFind(r) ==
    /\ ~Answered
    /\ reqs[r].kind = "likePost" /\ reqs[r].pc = "find"
    /\ LET p == reqs[r].target
       IN LikeFind(r, reqs[r], PostExists(p), posts[p].likes, posts[p].user,
                   posts[p].content)
    /\ UNCHANGED <<users, posts, comments, notifications, nReq, serial, follows, ownLike, toggles>>

\* The likes array findOneAndUpdate leaves in the matched document.  read is
\* the array the earlier findById returned, which the update does not use.
SaveReadCopy(stored, read, hasLiked, userId) == LikeUpdate(read, hasLiked, userId)

StoredAfter(stored, read, hasLiked, userId) == LikeUpdate(stored, hasLiked, userId)

\* The request after findOneAndUpdate resolved: the returned document, or null
\* when no document has the id any more.
AfterUpdate(req, exists, before, after) ==
    [req EXCEPT !.updated = IF exists THEN Doc(ReturnedDocument(before, after))
                             ELSE NoDoc,
                !.wrote = exists,
                !.added = exists /\ ~Includes(before, req.user)
                                 /\ Includes(after, req.user),
                !.postImage = after]

\* The end of the like handlers: the log line reads updated.likes.length, a
\* TypeError on null that the catch turns into 500; else res.json(updated).
LikeRespond(r, req) ==
    IF req.updated.isNull THEN Respond(r, req, 500, "Server error")
    ELSE Respond(r, [req EXCEPT !.body = req.updated], 200, "")

LikePostUpdate(r) ==
    /\ ~Answered
    /\ reqs[r].kind = "likePost" /\ reqs[r].pc = "update"
    /\ LET req == reqs[r]
           p == req.target
           exists == PostExists(p)
           before == posts[p].likes
           after == IF exists THEN StoredAfter(before, req.readLikes, req.hasLiked, req.user)
                    ELSE before
           req2 == AfterUpdate(req, exists, before, after)
       IN /\ posts' = [posts EXCEPT ![p].likes = after]
          /\ ownLike' = IF exists
                        THEN [ownLike EXCEPT !["post"][p][req.user] = ~req.hasLiked]
                        ELSE ownLike
          /\ toggles' = IF exists
                        THEN [toggles EXCEPT !["post"][p][req.user] = ~@]
                        ELSE toggles
          \* post.user is null when the populated owner document is gone:
          \* post.user._id throws, evaluated only when hasLiked is false
          /\ IF ~req.hasLiked /\ ~req.ownerPopulated
             THEN Respond(r, req2, 500, "Server error")
             ELSE IF NotifyGate(req.hasLiked, req.owner, req.user)
                  THEN Continue(r, [req2 EXCEPT !.pc = "notify"])
                  ELSE LikeRespond(r, req2)
    /\ UNCHANGED <<users, comments, notifications, nReq, serial, follows>>

LikePostNotify(r) ==
    /\ ~Answered
    /\ reqs[r].kind = "likePost" /\ reqs[r].pc = "notify"
    /\ LET req == reqs[r]
       IN /\ notifications' = Append(notifications,
                Notification(req.owner, req.user, req.target, "like",
                             LikeContent(req.content, Username(req.user))))
          /\ LikeRespond(r, [req EXCEPT !.notified = TRUE])
    /\ UNCHANGED <<users, posts, comments, nReq, serial, follows, ownLike, toggles>>

\* -------------------------------------------------- PUT /comments/like/:id
LikeCommentFind(r) ==
    /\ ~Answered
    /\ reqs[r].kind = "likeComment" /\ reqs[r].pc = "find"
    /\ LET c == reqs[r].target
       IN LikeFind(r, reqs[r], CommentExists(c), comments[c].likes, comments[c].user,
                   comments[c].content)
    /\ UNCHANGED <<users, posts, comments, notifications, nReq, serial, follows, ownLike, toggles>>

LikeCommentUpdate(r) ==
    /\ ~Answered
    /\ reqs[r].kind = "likeComment" /\ reqs[r].pc = "update"
    /\ LET req == reqs[r]
           c == req.target
           exists == CommentExists(c)
           before == comments[c].likes
           after == IF exists THEN StoredAfter(before, req.readLikes, req.hasLiked, req.user)
                    ELSE before
       IN /\ comments' = [comments EXCEPT ![c].likes = after]
          /\ ownLike' = IF exists
                        THEN [ownLike EXCEPT !["comment"][c][req.user] = ~req.hasLiked]
                        ELSE ownLike
          /\ toggles' = IF exists
                        THEN [toggles EXCEPT !["comment"][c][req.user] = ~@]
                        ELSE toggles
          /\ LikeRespond(r, AfterUpdate(req, exists, before, after))
    /\ UNCHANGED <<users, posts, notifications, nReq, serial, follows>>

\* -------------------------------------------------- POST /comments/:postId
CreateCommentFind(r) ==
    /\ ~Answered
    /\ reqs[r].kind = "createComment" /\ reqs[r].pc = "find"
    /\ LET req == reqs[r]
           p == req.target
       IN IF ~PostExists(p) THEN Respond(r, req, 404, "Post not found")
          ELSE Continue(r, [req EXCEPT !.pc = "save", !.found = TRUE,
                                       !.content = posts[p].content,
                                       !.owner = posts[p].user,
                                       !.ownerPopulated = posts[p].user \in users])
    /\ UNCHANGED <<users, posts, comments, notifications, nReq, serial, follows, ownLike, toggles>>

\* newComment.save()
CreateCommentSave(r) ==
    /\ ~Answered
    /\ reqs[r].kind = "createComment" /\ reqs[r].pc = "save"
    /\ \E c \in FreshIds(comments, CommentIds) :
        comments' = [comments EXCEPT ![c] =
            [state |-> "live", user |-> reqs[r].user, post |-> reqs[r].target,
             likes |-> <<>>, content |-> reqs[r].text]]
    /\ Continue(r, [reqs[r] EXCEPT !.pc = "push", !.wrote = TRUE])
    /\ UNCHANGED <<users, posts, notifications, nReq, serial, follows, ownLike, toggles>>

\* post.comments.push(comment._id); post.save(): a $push on the post, which
\* leaves its likes alone.  When the post was deleted meanwhile, save()
\* rejects (DocumentNotFoundError) or resolves, by the mongoose version.
\* Then post.user._id is read: a TypeError when the populated owner is null.
CreateCommentPush(r, saveThrows) ==
    /\ ~Answered
    /\ reqs[r].kind = "createComment" /\ reqs[r].pc = "push"
    /\ LET req == reqs[r]
       IN IF (~PostExists(req.target) /\ saveThrows) \/ ~req.ownerPopulated
          THEN Respond(r, req, 500, "Server error")
          ELSE IF req.owner # req.user
               THEN Continue(r, [req EXCEPT !.pc = "notify"])
               ELSE Respond(r, req, 201, "")
    /\ UNCHANGED <<users, posts, comments, notifications, nReq, serial, follows, ownLike, toggles>>

CreateCommentNotify(r) ==
    /\ ~Answered
    /\ reqs[r].kind = "createComment" /\ reqs[r].pc = "notify"
    /\ LET req == reqs[r]
       IN /\ notifications' = Append(notifications,
                Notification(req.owner, req.user, req.target, "comment",
                             CommentContent(req.content, Username(req.user), req.text)))
          /\ Respond(r, [req EXCEPT !.notified = TRUE], 201, "")
    /\ UNCHANGED <<users, posts, comments, nReq, serial, follows, ownLike, toggles>>

\* ------------------------------------------ DELETE /users/username/:username
DeleteUserFind(r) ==
    /\ ~Answered
    /\ reqs[r].kind = "deleteUser" /\ reqs[r].pc = "find"
    /\ LET req == reqs[r]
           got == [req EXCEPT !.found = TRUE, !.owner = req.target]
       IN IF req.target \notin users THEN Respond(r, req, 404, "User not found")
          ELSE IF ~IsOwner(req.target, req.user)
               THEN Respond(r, got, 401, "Not authorized")
               ELSE Continue(r, [got EXCEPT !.pc = "deletePosts"])
    /\ UNCHANGED <<users, posts, comments, notifications, nReq, serial, follows, ownLike, toggles>>

\* Post.deleteMany({ user: user._id })
DeleteUserPosts(r) ==
    /\ ~Answered
    /\ reqs[r].kind = "deleteUser" /\ reqs[r].pc = "deletePosts"
    /\ LET gone == {p \in PostIds : PostExists(p) /\ posts[p].user = reqs[r].target}
           clear(h) == [h EXCEPT !["post"] =
                            [p \in PostIds |-> IF p \in gone
                                               THEN [u \in Users |-> FALSE]
                                               ELSE h["post"][p]]]
       IN /\ posts' = [p \in PostIds |-> IF p \in gone THEN DeletedPost ELSE posts[p]]
          /\ ownLike' = clear(ownLike)
          /\ toggles' = clear(toggles)
    /\ Continue(r, [reqs[r] EXCEPT !.pc = "deleteUser", !.wrote = TRUE])
    /\ UNCHANGED <<users, comments, notifications, nReq, serial, follows>>

\* user.deleteOne(), after the two updateMany that pull the user from the
\* other users' followers and following lists.
DeleteUserDelete(r) ==
    /\ ~Answered
    /\ reqs[r].kind = "deleteUser" /\ reqs[r].pc = "deleteUser"
    /\ users' = users \ {reqs[r].target}
    /\ follows' = [u \in Users |->
                        IF u = reqs[r].target THEN NoFollows[u]
                        ELSE [following |-> Pull(follows[u].following, reqs[r].target),
                              followers |-> Pull(follows[u].followers, reqs[r].target)]]
    /\ Respond(r, reqs[r], 200, "User deleted successfully")
    /\ UNCHANGED <<posts, comments, notifications, nReq, serial, ownLike, toggles>>

\* ----------------------------------------------------------- PUT /posts/:id
\* findById, 404, 401; then post.content = content when the body has one (the
\* image, which nothing else reads, is left out).
UpdatePostFind(r) ==
    /\ ~Answered
    /\ reqs[r].kind = "updatePost" /\ reqs[r].pc = "find"
    /\ LET req == reqs[r]
           p == req.target
           got == [req EXCEPT !.found = TRUE, !.owner = posts[p].user]
       IN IF ~PostExists(p) THEN Respond(r, req, 404, "Post not found")
          ELSE IF ~IsOwner(posts[p].user, req.user)
               THEN Respond(r, got, 401, "Not authorized")
               ELSE Continue(r, [got EXCEPT !.pc = "save"])
    /\ UNCHANGED <<users, posts, comments, notifications, nReq, serial, follows,
                   ownLike, toggles>>

\* post.save(): sets the modified path content on the stored document; with
\* nothing modified it sends nothing.  When the post was deleted meanwhile,
\* save() rejects or resolves, by the mongoose version.
UpdatePostSave(r, saveThrows) ==
    /\ ~Answered
    /\ reqs[r].kind = "updatePost" /\ reqs[r].pc = "save"
    /\ LET req == reqs[r]
           p == req.target
           modified == req.text # <<>>
       IN IF modified /\ PostExists(p)
          THEN /\ posts' = [posts EXCEPT ![p].content = req.text]
               /\ Respond(r, [req EXCEPT !.wrote = TRUE], 200, "")
          ELSE /\ posts' = posts
               /\ IF modified /\ saveThrows
                  THEN Respond(r, req, 500, "Server error")
                  ELSE Respond(r, req, 200, "")
    /\ UNCHANGED <<users, comments, notifications, nReq, serial, follows, ownLike,
                   toggles>>

\* -------------------------------------------------------- PUT /comments/:id
UpdateCommentFind(r) ==
    /\ ~Answered
    /\ reqs[r].kind = "updateComment" /\ reqs[r].pc = "find"
    /\ LET req == reqs[r]
           c == req.target
           got == [req EXCEPT !.found = TRUE, !.owner = comments[c].user]
       IN IF ~CommentExists(c) THEN Respond(r, req, 404, "Comment not found")
          ELSE IF ~IsOwner(comments[c].user, req.user)
               THEN Respond(r, got, 401, "Not authorized")
               ELSE Continue(r, [got EXCEPT !.pc = "save"])
    /\ UNCHANGED <<users, posts, comments, notifications, nReq, serial, follows,
                   ownLike, toggles>>

\* comment.content = req.body.content; comment.save()
UpdateCommentSave(r, saveThrows) ==
    /\ ~Answered
    /\ reqs[r].kind = "updateComment" /\ reqs[r].pc = "save"
    /\ LET req == reqs[r]
           c == req.target
       IN IF CommentExists(c)
          THEN /\ comments' = [comments EXCEPT ![c].content = req.text]
               /\ Continue(r, [req EXCEPT !.wrote = TRUE, !.pc = "populate"])
          ELSE /\ comments' = comments
               /\ IF saveThrows THEN Respond(r, req, 500, "Server error")
                  ELSE Continue(r, [req EXCEPT !.pc = "populate"])
    /\ UNCHANGED <<users, posts, notifications, nReq, serial, follows, ownLike,
                   toggles>>

\* comment.populate('user', ...) and res.json(comment)
UpdateCommentPopulate(r) ==
    /\ ~Answered
    /\ reqs[r].kind = "updateComment" /\ reqs[r].pc = "populate"
    /\ Respond(r, reqs[r], 200, "")
    /\ UNCHANGED <<users, posts, comments, notifications, nReq, serial, follows,
                   ownLike, toggles>>

\* ----------------------------------------------------- DELETE /comments/:id
DeletedComment ==
    [state |-> "deleted", user |-> NoUser, post |-> 0, likes |-> <<>>, content |-> <<>>]

DeleteCommentFind(r) ==
    /\ ~Answered
    /\ reqs[r].kind = "deleteComment" /\ reqs[r].pc = "find"
    /\ LET req == reqs[r]
           c == req.target
           got == [req EXCEPT !.found = TRUE, !.owner = comments[c].user]
       IN IF ~CommentExists(c) THEN Respond(r, req, 404, "Comment not found")
          ELSE IF ~IsOwner(comments[c].user, req.user)
               THEN Respond(r, got, 401, "Not authorized")
               ELSE Continue(r, [got EXCEPT !.pc = "findPost",
                                            !.ref = comments[c].post])
    /\ UNCHANGED <<users, posts, comments, notifications, nReq, serial, follows,
                   ownLike, toggles>>

\* Post.findById(comment.post); post.comments = ... is a TypeError on null,
\* so the comment of a deleted post is never removed.
DeleteCommentFindPost(r) ==
    /\ ~Answered
    /\ reqs[r].kind = "deleteComment" /\ reqs[r].pc = "findPost"
    /\ IF PostExists(reqs[r].ref)
       THEN Continue(r, [reqs[r] EXCEPT !.pc = "savePost"])
       ELSE Respond(r, reqs[r], 500, "Server error")
    /\ UNCHANGED <<users, posts, comments, notifications, nReq, serial, follows,
                   ownLike, toggles>>

\* post.save() with the filtered comments array (the array is not modelled:
\* no route reads it back).  Rejects or resolves when the post is gone.
DeleteCommentSavePost(r, saveThrows) ==
    /\ ~Answered
    /\ reqs[r].kind = "deleteComment" /\ reqs[r].pc = "savePost"
    /\ IF ~PostExists(reqs[r].ref) /\ saveThrows
       THEN Respond(r, reqs[r], 500, "Server error")
       ELSE Continue(r, [reqs[r] EXCEPT !.pc = "remove"])
    /\ UNCHANGED <<users, posts, comments, notifications, nReq, serial, follows,
                   ownLike, toggles>>

\* comment.remove()
DeleteCommentRemove(r) ==
    /\ ~Answered
    /\ reqs[r].kind = "deleteComment" /\ reqs[r].pc = "remove"
    /\ LET c == reqs[r].target
       IN /\ comments' = [comments EXCEPT ![c] = DeletedComment]
          /\ ownLike' = [ownLike EXCEPT !["comment"][c] = [u \in Users |-> FALSE]]
          /\ toggles' = [toggles EXCEPT !["comment"][c] = [u \in Users |-> FALSE]]
    /\ Respond(r, [reqs[r] EXCEPT !.wrote = TRUE], 200, "Comment removed")
    /\ UNCHANGED <<users, posts, notifications, nReq, serial, follows>>

\* ------------------------- POST /users/follow/:id, POST /users/unfollow/:id
\* The two handlers differ in the test on currentUser.following and in the
\* update operator.
\* userToFollow = await User.findById(req.params.id)
FollowFindTarget(r) ==
    /\ ~Answered
    /\ reqs[r].kind \in FollowKinds /\ reqs[r].pc = "findTarget"
    /\ Continue(r, [reqs[r] EXCEPT !.pc = "findSelf",
                                    !.found = reqs[r].target \in users])
    /\ UNCHANGED <<users, posts, comments, notifications, nReq, serial, follows,
                   ownLike, toggles>>

\* currentUser = await User.findById(req.user._id); 404 when the target was
\* not found; currentUser.following is a TypeError when the caller's document
\* is gone; 400 when following.includes(id) says the request changes nothing.
FollowFindSelf(r) ==
    /\ ~Answered
    /\ reqs[r].kind \in FollowKinds /\ reqs[r].pc = "findSelf"
    /\ LET req == reqs[r]
           follow == req.kind = "follow"
           isFollowing == Includes(follows[req.user].following, req.target)
           got == [req EXCEPT !.hasLiked = isFollowing]
       IN IF ~req.found THEN Respond(r, req, 404, "User not found")
          ELSE IF req.user \notin users THEN Respond(r, req, 500, "Server error")
          ELSE IF follow = isFollowing
               THEN Respond(r, got, 400,
                            IF follow THEN "You are already following this user"
                            ELSE "You are not following this user")
               ELSE Continue(r, [got EXCEPT !.pc = "updateSelf"])
    /\ UNCHANGED <<users, posts, comments, notifications, nReq, serial, follows,
                   ownLike, toggles>>

\* The update operator of the two updateOne calls: $push to follow, $pull
\* to unfollow.
FollowUpdate(kind, list, id) ==
    IF kind = "follow" THEN Push(list, id) ELSE Pull(list, id)

\* currentUser.updateOne({ $push | $pull: { following: req.params.id } }):
\* matches nothing when the caller's document is gone.
FollowUpdateSelf(r) ==
    /\ ~Answered
    /\ reqs[r].kind \in FollowKinds /\ reqs[r].pc = "updateSelf"
    /\ LET req == reqs[r]
       IN /\ follows' = IF req.user \in users
                        THEN [follows EXCEPT ![req.user].following =
                                    FollowUpdate(req.kind, @, req.target)]
                        ELSE follows
          /\ Continue(r, [req EXCEPT !.pc = "updateTarget", !.wrote = TRUE])
    /\ UNCHANGED <<users, posts, comments, notifications, nReq, serial, ownLike,
                   toggles>>

\* userToFollow.updateOne({ $push | $pull: { followers: req.user._id } })
FollowUpdateTarget(r) ==
    /\ ~Answered
    /\ reqs[r].kind \in FollowKinds /\ reqs[r].pc = "updateTarget"
    /\ LET req == reqs[r]
       IN /\ follows' = IF req.target \in users
                        THEN [follows EXCEPT ![req.target].followers =
                                    FollowUpdate(req.kind, @, req.user)]
                        ELSE follows
          /\ Respond(r, req, 200, "")
    /\ UNCHANGED <<users, posts, comments, notifications, nReq, serial, ownLike,
                   toggles>>

\* ---------------------------------------------- GET routes of /posts
\* The GET routes of the posts router in registration order; a path is the
\* sequence of its segments, a segment that begins with ':' is a parameter.
PostGetRoutes ==
    <<[pattern |-> <<>>, handler |-> "list"],
      [pattern |-> <<"search">>, handler |-> "search"],
      [pattern |-> <<"user", ":userId">>, handler |-> "userPosts"],
      [pattern |-> <<":id">>, handler |-> "getPost"],
      [pattern |-> <<"trending">>, handler |-> "trending"]>>

RouteParams == {":id", ":userId"}

\* Whether a route's pattern matches a request path.
Matches(pattern, path) ==
    /\ Len(pattern) = Len(path)
    /\ \A i \in 1..Len(pattern) : pattern[i] \in RouteParams \/ pattern[i] = path[i]

\* The router runs the handler of the first route, in registration order,
\* that matches; "none" when no route does.
Dispatch(routes, path) ==
    LET hits == {i \in 1..Len(routes) : Matches(routes[i].pattern, path)}
    IN IF hits = {} THEN "none"
       ELSE routes[CHOOSE i \in hits : \A j \in hits : i <= j].handler

\* The strings that cast to an ObjectId: the ids of the posts and one that no
\* post has.
ObjectIdStrings == {ToString(i) : i \in 1..(NumPosts + 1)}

\* The paths of the GET requests sent to the posts router.
GetPaths ==
    {<<>>, <<"search">>, <<"trending">>} \cup {<<s>> : s \in ObjectIdStrings}
        \cup {<<"user", ToString(u)>> : u \in Users}

\* The number of posts the trending handler returns at most.
TrendingLimit == 10

LivePosts == {p \in PostIds : PostExists(p)}

\* posts.sort((a, b) => b.likes.length - a.likes.length).slice(0, 10), as
\* post ids: Array.prototype.sort is stable, Post.find() returns the posts
\* in creation order.
Trending ==
    LET n == Cardinality(LivePosts)
        Before(p, q) ==
            \/ Len(posts[p].likes) > Len(posts[q].likes)
            \/ Len(posts[p].likes) = Len(posts[q].likes) /\ p < q
        sorted == CHOOSE l \in [1..n -> LivePosts] :
                    \A i, j \in 1..n : i < j => Before(l[i], l[j])
    IN SubSeq(sorted, 1, Min(TrendingLimit, n))

\* A GET request arrives (these routes have no auth middleware) and the
\* router picks its handler, which runs up to its query.
ReceiveGet(r, path) ==
    /\ ~Answered
    /\ ~InFlight(r)
    /\ \A q \in Slots : q < r => InFlight(q)
    /\ nReq < MaxRequests
    /\ serial => \A q \in Slots : ~InFlight(q)
    /\ nReq' = nReq + 1
    /\ LET handler == Dispatch(PostGetRoutes, path)
           req == [IdleReq EXCEPT !.kind = "get", !.path = path, !.handler = handler,
                                  !.pc = "query"]
       IN IF handler = "none" THEN Respond(r, req, 404, "Cannot GET")
          ELSE IF handler = "search"
               THEN \* no query parameter: !query
                    Respond(r, req, 400, "Search query is required")
          ELSE IF handler = "getPost" /\ path[1] \notin ObjectIdStrings
               THEN \* Post.findById throws the CastError
                    Respond(r, req, 500, "Server error")
               ELSE Continue(r, req)
    /\ UNCHANGED <<users, posts, comments, notifications, serial, follows, ownLike,
                   toggles>>

\* The handler's query resolves and the handler answers.  list is the posts
\* of the response body, as ids.
GetServe(r) ==
    /\ ~Answered
    /\ reqs[r].kind = "get" /\ reqs[r].pc = "query"
    /\ LET req == reqs[r]
           newestFirst == [i \in 1..Cardinality(LivePosts) |->
                CHOOSE p \in LivePosts :
                    Cardinality({q \in LivePosts : q > p}) = i - 1]
       IN CASE req.handler = "getPost" ->
                LET hit == {p \in LivePosts : ToString(p) = req.path[1]}
                IN IF hit = {} THEN Respond(r, req, 404, "Post not found")
                   ELSE Respond(r, [req EXCEPT !.found = TRUE,
                                               !.list = <<CHOOSE p \in hit : TRUE>>],
                                200, "")
            [] req.handler = "trending" ->
                Respond(r, [req EXCEPT !.list = Trending], 200, "")
            [] req.handler = "userPosts" ->
                Respond(r, [req EXCEPT !.list =
                    SelectSeq(newestFirst,
                              LAMBDA p : ToString(posts[p].user) = req.path[2])],
                        200, "")
            [] OTHER -> Respond(r, [req EXCEPT !.list = newestFirst], 200, "")
    /\ UNCHANGED <<users, posts, comments, notifications, nReq, serial, follows,
                   ownLike, toggles>>

\* ------------------------------------------- PUT /notifications/:id/read
NotificationExists(i) == i \in 1..Len(notifications)

\* notification.read = true; notification.save(): the update sets read.
ToggleRead(n) == [n EXCEPT !.read = ~@]

MarkRead(n) == [n EXCEPT !.read = TRUE]

MarkReadFind(r) ==
    /\ ~Answered
    /\ reqs[r].kind = "markRead" /\ reqs[r].pc = "find"
    /\ LET req == reqs[r]
           i == req.target
       IN IF ~NotificationExists(i)
          THEN Respond(r, req, 404, "Notification not found")
          ELSE IF notifications[i].recipient # req.user
               THEN Respond(r, [req EXCEPT !.found = TRUE,
                                           !.owner = notifications[i].recipient],
                            401, "Not authorized")
               ELSE Continue(r, [req EXCEPT !.found = TRUE, !.pc = "save",
                                            !.owner = notifications[i].recipient])
    /\ UNCHANGED <<users, posts, comments, notifications, nReq, serial, follows,
                   ownLike, toggles>>

MarkReadSave(r) ==
    /\ ~Answered
    /\ reqs[r].kind = "markRead" /\ reqs[r].pc = "save"
    /\ notifications' = [notifications EXCEPT ![reqs[r].target] = MarkRead(@)]
    /\ Respond(r, [reqs[r] EXCEPT !.wrote = TRUE], 200, "")
    /\ UNCHANGED <<users, posts, comments, nReq, serial, follows, ownLike, toggles>>

\* ------------------------------------------- PUT /notifications/read-all
\* The filter of the updateMany: { recipient: req.user._id, read: false }.
MatchesAnyUnread(n, userId) == ~n.read

MatchesUnreadOf(n, userId) == n.recipient = userId /\ ~n.read

ReadAllUpdate(r) ==
    /\ ~Answered
    /\ reqs[r].kind = "readAll" /\ reqs[r].pc = "update"
    /\ notifications' = [i \in 1..Len(notifications) |->
                            IF MatchesUnreadOf(notifications[i], reqs[r].user)
                            THEN MarkRead(notifications[i])
                            ELSE notifications[i]]
    /\ Respond(r, [reqs[r] EXCEPT !.wrote = TRUE], 200,
               "All notifications marked as read")
    /\ UNCHANGED <<users, posts, comments, nReq, serial, follows, ownLike, toggles>>

\* ------------------------------------------------------------ specification
\* The response of the latest step leaves for the client; the handlers go on
\* after it (it touches nothing they read).
Deliver ==
    /\ Answered
    /\ last' = IdleReq
    /\ UNCHANGED <<users, posts, comments, notifications, reqs, nReq, serial, follows, ownLike,
                   toggles>>

Next ==
    \/ \E r \in Slots, k \in Kinds, c \in Credentials, f \in BOOLEAN :
        \E t \in Targets(k) : Receive(r, k, c, t, f)
    \/ \E r \in Slots : StoreFails(r)
    \/ \E r \in Slots : CreatePostSave(r)
    \/ \E r \in Slots : DeletePostFind(r)
    \/ \E r \in Slots : DeletePostDelete(r)
    \/ \E r \in Slots : LikePostFind(r)
    \/ \E r \in Slots : LikePostUpdate(r)
    \/ \E r \in Slots : LikePostNotify(r)
    \/ \E r \in Slots : LikeCommentFind(r)
    \/ \E r \in Slots : LikeCommentUpdate(r)
    \/ \E r \in Slots : CreateCommentFind(r)
    \/ \E r \in Slots : CreateCommentSave(r)
    \/ \E r \in Slots, f \in BOOLEAN : CreateCommentPush(r, f)
    \/ \E r \in Slots : CreateCommentNotify(r)
    \/ \E r \in Slots : DeleteUserFind(r)
    \/ \E r \in Slots : DeleteUserPosts(r)
    \/ \E r \in Slots : DeleteUserDelete(r)
    \/ Deliver

Spec == Init /\ [][Next]_vars

\* The requests of users who hold a token of theirs.
Tokens == {TokenOf(u) : u \in Users}

\* The routes that write or mark Notifications and those that delete what a
\* Notification refers to.
NextNotif ==
    \/ \E r \in Slots, k \in NotificationKinds \cup {"likePost", "deletePost", "deleteUser"},
          c \in Tokens :
        \E t \in Targets(k) : Receive(r, k, c, t, FALSE)
    \/ \E r \in Slots : StoreFails(r)
    \/ \E r \in Slots : MarkReadFind(r)
    \/ \E r \in Slots : MarkReadSave(r)
    \/ \E r \in Slots : ReadAllUpdate(r)
    \/ \E r \in Slots : LikePostFind(r)
    \/ \E r \in Slots : LikePostUpdate(r)
    \/ \E r \in Slots : LikePostNotify(r)
    \/ \E r \in Slots : DeletePostFind(r)
    \/ \E r \in Slots : DeletePostDelete(r)
    \/ \E r \in Slots : DeleteUserFind(r)
    \/ \E r \in Slots : DeleteUserPosts(r)
    \/ \E r \in Slots : DeleteUserDelete(r)
    \/ Deliver

SpecNotif == InitNotif /\ [][NextNotif]_vars

\* The routes that enforce ownership, with overlapping requests.
NextOwn ==
    \/ \E r \in Slots, k \in OwnedKinds, c \in Tokens :
        \E t \in Targets(k), b \in Bodies(k) : ReceiveBody(r, k, c, t, b, FALSE)
    \/ \E r \in Slots : StoreFails(r)
    \/ \E r \in Slots : UpdatePostFind(r)
    \/ \E r \in Slots, f \in BOOLEAN : UpdatePostSave(r, f)
    \/ \E r \in Slots : DeletePostFind(r)
    \/ \E r \in Slots : DeletePostDelete(r)
    \/ \E r \in Slots : UpdateCommentFind(r)
    \/ \E r \in Slots, f \in BOOLEAN : UpdateCommentSave(r, f)
    \/ \E r \in Slots : UpdateCommentPopulate(r)
    \/ \E r \in Slots : DeleteCommentFind(r)
    \/ \E r \in Slots : DeleteCommentFindPost(r)
    \/ \E r \in Slots, f \in BOOLEAN : DeleteCommentSavePost(r, f)
    \/ \E r \in Slots : DeleteCommentRemove(r)
    \/ \E r \in Slots : DeleteUserFind(r)
    \/ \E r \in Slots : DeleteUserPosts(r)
    \/ \E r \in Slots : DeleteUserDelete(r)
    \/ Deliver

SpecOwn == Init /\ [][NextOwn]_vars

\* Overlapping follow and unfollow requests; no store access fails.
NextFollow ==
    \/ \E r \in Slots, k \in FollowKinds, c \in Tokens :
        \E t \in Targets(k) : Receive(r, k, c, t, FALSE)
    \/ \E r \in Slots : FollowFindTarget(r)
    \/ \E r \in Slots : FollowFindSelf(r)
    \/ \E r \in Slots : FollowUpdateSelf(r)
    \/ \E r \in Slots : FollowUpdateTarget(r)
    \/ Deliver

SpecFollow == InitFollow /\ [][NextFollow]_vars

\* GET requests to the posts router.
NextRoute ==
    \/ \E r \in Slots, path \in GetPaths : ReceiveGet(r, path)
    \/ \E r \in Slots : StoreFails(r)
    \/ \E r \in Slots : GetServe(r)
    \/ Deliver

SpecRoute == InitRoute /\ [][NextRoute]_vars

\* Like requests on posts of every text.
NextPreview ==
    \/ \E r \in Slots, c \in Tokens : \E t \in Targets("likePost") :
        Receive(r, "likePost", c, t, FALSE)
    \/ \E r \in Slots : StoreFails(r)
    \/ \E r \in Slots : LikePostFind(r)
    \/ \E r \in Slots : LikePostUpdate(r)
    \/ \E r \in Slots : LikePostNotify(r)
    \/ Deliver

SpecPreview == InitPreview /\ [][NextPreview]_vars

\* -------------------------------------------------------------- properties
Entity(e, i) == IF e = "post" THEN posts[i] ELSE comments[i]
IsLike(req) == req.kind \in {"likePost", "likeComment"}

\* Notification n is unread, of the type, from sender to recipient about post.
Addressed(n, recipient, sender, post, type) ==
    /\ n.recipient = recipient /\ n.sender = sender /\ n.post = post
    /\ n.type = type /\ ~n.read

\* C1: in every reachable state, each user identifier appears at most once in
\* the likes array of every post and of every comment.
C1_LikesUnique ==
    \A e \in Entities : \A i \in EntityIds(e) : \A u \in Users :
        Occurrences(Entity(e, i).likes, u) <= 1

\* A like request added a user that a concurrent request of the same user had
\* added already: $addToSet met a member.
C1_Witness ==
    /\ Answered /\ IsLike(last) /\ last.status = 200
    /\ ~last.hasLiked /\ last.wrote /\ ~last.added
    /\ Occurrences(last.body.likes, last.user) = 1

\* C2: with requests one after another, a user who has issued n like updates
\* on an entity (created with no likes) is in its likes exactly once when n is
\* odd and not at all when n is even; the other users' membership depends on
\* their own n alone, so an even n restores the likes set and an odd n adds
\* just this user to it.
C2_ToggleParity ==
    \A e \in Entities : \A i \in EntityIds(e) : \A u \in Users :
        Entity(e, i).state = "live" =>
            Occurrences(Entity(e, i).likes, u) = IF toggles[e][i][u] THEN 1 ELSE 0

\* A user's second toggle of a post has been answered: n = 2, the user is out.
C2_Witness ==
    /\ Answered /\ last.kind = "likePost" /\ last.status = 200 /\ last.hasLiked
    /\ ~toggles["post"][last.target][last.user]
    /\ ~Includes(posts[last.target].likes, last.user)

\* C3: with requests one after another, a post like toggle by a user who is
\* not the post's owner (the post exists, no store access fails) creates
\* exactly one Notification (type 'like', to the owner, from the user) when the
\* user had not liked the post, and none when the user had (the toggle back).
C3_RisingEdgeNotifies ==
    (Answered /\ last.kind = "likePost" /\ last.found /\ ~last.threw
        /\ last.user # last.owner) =>
        /\ last.status = 200
        /\ IF last.likedAtStart
           THEN Len(notifications) = last.nBefore
           ELSE /\ Len(notifications) = last.nBefore + 1
                /\ Addressed(notifications[Len(notifications)],
                             last.owner, last.user, last.target, "like")

\* The toggle back by the user whose like was notified has been answered.
C3_Witness ==
    /\ Answered /\ last.kind = "likePost" /\ last.status = 200
    /\ last.user # last.owner /\ last.likedAtStart
    /\ \E i \in 1..Len(notifications) :
        Addressed(notifications[i], last.owner, last.user, last.target, "like")

\* C4: no Notification of type 'like' has its sender as recipient, and no like
\* request of the entity's owner has written or is about to write one.
C4_NoSelfNotify ==
    /\ \A i \in 1..Len(notifications) :
        notifications[i].type = "like" =>
            notifications[i].sender # notifications[i].recipient
    /\ \A r \in Slots :
        (reqs[r].kind = "likePost" /\ reqs[r].pc = "notify") =>
            reqs[r].user # reqs[r].owner
    /\ (Answered /\ IsLike(last) /\ last.user = last.owner) => ~last.notified

\* The owner's like of the own post has been answered.
C4_Witness ==
    /\ Answered /\ last.kind = "likePost" /\ last.status = 200
    /\ last.user = last.owner /\ ~last.hasLiked /\ last.added

\* C5: a post like request (of a user who is not the owner) writes a
\* Notification if and only if its own atomic update found the user absent from
\* likes and left the user present.
C5_NotifyIffTransition ==
    (Answered /\ last.kind = "likePost" /\ last.status = 200
        /\ last.user # last.owner) => (last.notified <=> last.added)

\* C6: whatever the interleaving, each user's membership in the likes of a
\* stored entity is what that user's own latest like update made it: present
\* after an add, absent after a remove or with no update.
C6_NoLostUpdate ==
    \A e \in Entities : \A i \in EntityIds(e) : \A u \in Users :
        Entity(e, i).state = "live" =>
            (Includes(Entity(e, i).likes, u) <=> ownLike[e][i][u])

\* A like request that read an empty likes array is answered with two likes:
\* another user's add went in between its lookup and its update, and is kept.
C6_Witness ==
    /\ Answered /\ IsLike(last) /\ last.status = 200 /\ ~last.hasLiked
    /\ last.readLikes = <<>> /\ Len(last.body.likes) = 2
    /\ \A u \in Range(last.body.likes) :
        Includes(Entity(IF last.kind = "likePost" THEN "post" ELSE "comment",
                        last.target).likes, u)

\* C7: the likes a like request answers with (status 200) are the stored
\* likes right after its own update, and hold the acting user exactly when it
\* issued an add.
C7_ResponseIsPostImage ==
    (Answered /\ IsLike(last) /\ last.status = 200) =>
        /\ last.body.likes = last.postImage
        /\ Includes(last.body.likes, last.user) <=> ~last.hasLiked

\* A like request answered with likes that differ from what its earlier
\* lookup would give.
C7_Witness ==
    /\ Answered /\ IsLike(last) /\ last.status = 200
    /\ last.body.likes # LikeUpdate(last.readLikes, last.hasLiked, last.user)

\* C8: a like request whose :id names no stored post (or comment) is answered
\* 404, writes nothing and creates no Notification (no store access failing).
C8_MissingEntityIs404 ==
    (Answered /\ IsLike(last) /\ last.entered /\ ~last.found /\ ~last.threw) =>
        (last.status = 404 /\ ~last.wrote /\ ~last.notified)

\* C9: a comment like request that takes a user who is not the comment's
\* owner from not-liked to liked writes a Notification.
C9_CommentLikeNotifies ==
    (Answered /\ last.kind = "likeComment" /\ last.status = 200
        /\ last.added /\ last.user # last.owner) => last.notified

FourAuthErrors ==
    {"AUTH_TOKEN_MISSING", "TOKEN_EXPIRED", "INVALID_TOKEN", "USER_NOT_FOUND"}

\* The handler is entered only with req.user a user the lookup found.
EntersWithUser ==
    /\ \A r \in Slots : InFlight(r) =>
        (reqs[r].entered /\ reqs[r].credOk /\ reqs[r].user = reqs[r].cred.userId)
    /\ (Answered /\ last.entered) => (last.credOk /\ last.user = last.cred.userId)

SpecSeq == InitSeq /\ [][Next]_vars

\* The latest step answered a request of the kind with the status.
Served(kind, status) == Answered /\ last.kind = kind /\ last.status = status

\* C11: a step changes the read flag of a Notification only when it answers
\* 200 to a mark-read request of the Notification's recipient (for
\* /:id/read, of that very Notification); a /:id/read request of a user who
\* is not the recipient is answered 401 and changes no Notification; and a
\* /read-all request answered 200 leaves every Notification of the caller read.
C11_ReadOwnerScoped ==
    [][/\ \A i \in 1..Len(notifications) :
            notifications'[i].read # notifications[i].read =>
                /\ Served("markRead", 200)' \/ Served("readAll", 200)'
                /\ last'.user = notifications[i].recipient
                /\ last'.kind = "markRead" => last'.target = i
       /\ (Answered' /\ last'.kind = "markRead" /\ last'.found
                /\ last'.user # last'.owner) =>
            (last'.status = 401 /\ notifications' = notifications)
       /\ Served("readAll", 200)' =>
            \A i \in 1..Len(notifications) :
                notifications[i].recipient = last'.user => notifications'[i].read
      ]_vars

\* A user's /read-all has been answered while another recipient's Notification
\* stays unread.
C11_Witness ==
    /\ Served("readAll", 200)
    /\ \E i, j \in 1..Len(notifications) :
        /\ notifications[i].recipient = last.user /\ notifications[i].read
        /\ notifications[j].recipient # last.user /\ ~notifications[j].read

\* C12: no step removes a Notification or changes the recipient, sender, post,
\* type or content of one, and no step takes a read flag back to false.
C12_NotificationsImmutable ==
    [][/\ Len(notifications') >= Len(notifications)
       /\ \A i \in 1..Len(notifications) :
            /\ [notifications'[i] EXCEPT !.read = FALSE]
                    = [notifications[i] EXCEPT !.read = FALSE]
            /\ notifications[i].read => notifications'[i].read
      ]_vars

\* A post has been deleted, by its owner's DELETE /posts/:id or with the
\* owner's account, and a Notification about it is still stored.
C12_Witness ==
    /\ Served("deletePost", 200) \/ Served("deleteUser", 200)
    /\ \E i \in 1..Len(notifications), p \in PostIds :
        /\ notifications[i].post = p /\ posts[p].state = "deleted"
        /\ notifications[i].read

\* The first n characters of a text of at least n characters.
FirstChars(text, n) == [i \in 1..n |-> text[i]]

\* C13: the content of every 'like' Notification is, between the quotes, the
\* first 30 characters of the post's content followed by '...' when the
\* content is longer than 30 characters, and the whole content with no
\* ellipsis when its length is 30 or less.
C13_PreviewTruncation ==
    \A i \in 1..Len(notifications) :
        LET n == notifications[i]
            text == posts[n.post].content
            tail == <<"\"", " liked by ", ToString(n.sender)>>
        IN n.type = "like" =>
            n.content = IF Len(text) > 30
                        THEN <<"\"">> \o FirstChars(text, 30) \o <<".", ".", ".">> \o tail
                        ELSE <<"\"">> \o text \o tail

\* A like of a post whose content has the boundary length 30 has been notified.
C13_Witness ==
    /\ Served("likePost", 200) /\ last.notified
    /\ Len(posts[last.target].content) = 30
    /\ notifications[Len(notifications)].post = last.target

\* The stored documents.
store == <<users, follows, posts, comments, notifications>>

\* The handler of slot r takes this step.
Acts(r) == InFlight(r) /\ reqs'[r] # reqs[r]

\* C14: a request of an update or delete route whose caller is not the owner
\* of the existing post, comment or user it names is answered 401 in a step
\* that leaves every stored document as it was; and every step that changes
\* the content of a post or comment or removes a post, a comment or a user is
\* a step of a request of the owner.
C14_OwnerOnly ==
    [][/\ (Answered' /\ last'.kind \in OwnedKinds /\ last'.found
                /\ last'.owner # last'.user) =>
            (last'.status = 401 /\ store' = store)
       /\ \A p \in PostIds :
            (PostExists(p) /\ (~PostExists(p)' \/ posts'[p].content # posts[p].content))
                => \E r \in Slots : Acts(r) /\ reqs[r].user = posts[p].user
       /\ \A c \in CommentIds :
            (CommentExists(c)
                /\ (~CommentExists(c)' \/ comments'[c].content # comments[c].content))
                => \E r \in Slots : Acts(r) /\ reqs[r].user = comments[c].user
       /\ \A u \in users \ users' : \E r \in Slots : Acts(r) /\ reqs[r].user = u
      ]_vars

\* A user's update of another user's post, with a new content, was answered.
C14_Witness ==
    /\ Served("updatePost", 401) /\ last.found /\ last.owner # last.user
    /\ last.text # <<>> /\ PostExists(last.target)
    /\ posts[last.target].content # last.text

\* C15: when the Notification write of a post like request fails (its likes
\* update is committed), the step answers 500 and ends the request, changes
\* neither the posts nor the Notifications; and a Notification is only ever
\* written by the notification step of a request in flight, so none is written
\* for a request that has failed.
C15_FailedNotifyKeepsLike ==
    [][/\ \A r \in Slots :
            (reqs[r].kind = "likePost" /\ reqs[r].pc = "notify" /\ Acts(r)
                /\ last'.threw) =>
                /\ last'.status = 500 /\ ~InFlight(r)'
                /\ posts' = posts /\ notifications' = notifications
       /\ Len(notifications') > Len(notifications) =>
            \E r \in Slots : Acts(r) /\ reqs[r].pc = "notify" /\ last'.notified
      ]_vars

\* A non-owner's like was added to the post, the Notification write failed,
\* and the request was answered: the like is stored, no Notification is.
C15_Witness ==
    /\ Served("likePost", 500) /\ last.threw /\ last.wrote /\ last.added
    /\ last.user # last.owner /\ ~last.notified
    /\ PostExists(last.target) /\ Includes(posts[last.target].likes, last.user)
    /\ Len(notifications) = last.nBefore

\* C16: a post like request that has written a Notification found the post in
\* the store at its update, and the update added the sender to the likes.
C16_NotifyOnlyAfterAdd ==
    (Answered /\ last.kind = "likePost" /\ last.notified) =>
        (last.wrote /\ last.added)

\* C17: a user id appears at most once in every following list and in every
\* followers list, and a follow request that read the target in the caller's
\* following list is answered 400.
C17_FollowListsUnique ==
    /\ \A u, v \in Users :
        /\ Occurrences(follows[u].following, v) <= 1
        /\ Occurrences(follows[u].followers, v) <= 1
    /\ (Answered /\ last.kind = "follow" /\ last.hasLiked) => last.status = 400

\* C18: when no follow or unfollow request is in flight, B is in
\* A.following exactly if A is in B.followers; and no user is ever in their
\* own following or followers list.
C18_FollowSymmetric ==
    /\ (\A r \in Slots : reqs[r].kind \notin FollowKinds) =>
        \A a, b \in Users :
            Includes(follows[a].following, b) <=> Includes(follows[b].followers, a)
    /\ \A a \in Users : /\ ~Includes(follows[a].following, a)
                        /\ ~Includes(follows[a].followers, a)

\* C19: a GET /posts/trending whose query succeeds is answered by the
\* trending handler with status 200 and at most 10 posts, each stored, in
\* descending order of their number of likes.
C19_TrendingServed ==
    (Answered /\ last.kind = "get" /\ last.path = <<"trending">> /\ ~last.threw) =>
        /\ last.handler = "trending"
        /\ last.status = 200
        /\ Len(last.list) <= 10
        /\ \A i, j \in 1..Len(last.list) :
            i < j => /\ PostExists(last.list[i]) /\ PostExists(last.list[j])
                     /\ Len(posts[last.list[i]].likes) >= Len(posts[last.list[j]].likes)
====
